---- MODULE Spec2Model ----
(***************************************************************************)
(* Model of the two scrapers of the repository:                            *)
(*   "meter" = src/meter_pr_rulle_script.py  (incremental scrape)          *)
(*   "H1"    = src/H1_scraper_script.py      (full-list scrape)            *)
(* Strings on which the code does character work (strip, startswith,      *)
(* sorted, replace, isdigit) are sequences of one-character strings.       *)
(***************************************************************************)
EXTENDS Integers, Sequences, FiniteSets, TLC

VARIABLES
    script,        \* which program runs: "meter" or "H1"
    delay,         \* main: the delay slept since the last search (NoDelay if none)
    flushesAfterStop, \* write calls the save thread made with stop_event set
    lastWriter,    \* who opened the output file last: "none", "save", "main"
    merged1,       \* the 'Varenr.' column of results_merged1.xlsx (Null column if absent)
    session,       \* sessions: scrape runs and merger runs completed so far
    firstWork,     \* sessions: the work list of the first scrape run
    fileKind,      \* [full, excl]: what is at each input path
    samePath,      \* --exclude-xlsx names the same file as --full-list
    loadError,     \* the exception a load raised ("none" if none)
    found,         \* main: what search_and_open_product returned for the item
    rawMetrics,    \* extractor: result after the lookup loop, before the cleanup
    fullCol,       \* the 'Varenr.' column of the full product list file
    exclCol,       \* the 'Varenr.' column of the already-scraped file
    full_list,     \* main: full_list / product_list as loaded
    exclude_list,  \* main: exclude_list
    to_scrape,     \* main: the work list (to_scrape / product_list)
    pcMain,        \* position of main()
    idx,           \* 1-based index of the item the for loop is at
    page,          \* page the browser shows after locate (external)
    entry,         \* main: entry of the current item
    results,       \* main: results (shared with the save thread)
    appendedAt,    \* clock value at which results[i] was appended
    driver,        \* "none", "open", "quit"
    stop_event,    \* threading.Event
    pcSave,        \* position of periodic_save
    wake,          \* clock value at which the running time.sleep(60) ends
    snapMain,      \* rows the main thread's write is writing
    snapSave,      \* rows the save thread's write is writing
    sink,          \* the output file: [kind, rows]
    now,           \* clock
    abort,         \* why main() ended with an exception ("none" if not)
    failedWrites,  \* number of sink writes that failed so far
    cycles,        \* autosave cycles completed (write_excel returned to the loop)
    lastCycle,     \* [len, wrote]: what the last completed cycle saw and whether it saved
    events         \* main's cleanup calls in the order made

vars == << script, delay, flushesAfterStop, lastWriter, merged1, session, firstWork, fileKind, samePath, loadError, found, rawMetrics, fullCol, exclCol, full_list, exclude_list, to_scrape, pcMain,
           idx, page, entry, results, appendedAt, driver, stop_event, pcSave,
           wake, snapMain, snapSave, sink, now, abort, failedWrites, cycles,
           lastCycle, events >>

----------------------------------------------------------------------------
(* Characters and strings *)

\* code point of the characters used
Ord(c) ==
    CASE c = " " -> 32
      [] c = "," -> 44
      [] c = "." -> 46
      [] c = "1" -> 49
      [] c = "2" -> 50
      [] c = "5" -> 53
      [] c = "9" -> 57
      [] c = "A" -> 65
      [] c = "B" -> 66
      [] c = "M" -> 77
      [] c = "R" -> 82
      [] c = "S" -> 83
      [] c = "T" -> 84
      [] c = "X" -> 88
      [] c = "k" -> 107
      [] c = "r" -> 114
      [] c = "t" -> 116
      [] OTHER -> 0

\* str < str of Python: lexicographic on code points, a proper prefix is smaller
RECURSIVE StrLess(_, _)
StrLess(s, t) ==
    IF t = << >> THEN FALSE
    ELSE IF s = << >> THEN TRUE
    ELSE IF Ord(Head(s)) # Ord(Head(t)) THEN Ord(Head(s)) < Ord(Head(t))
    ELSE StrLess(Tail(s), Tail(t))

\* str.startswith(prefix)
StartsWith(s, prefix) ==
    /\ Len(s) >= Len(prefix)
    /\ SubSeq(s, 1, Len(prefix)) = prefix

\* str.strip(): drop leading and trailing whitespace
RECURSIVE LStrip(_)
LStrip(s) ==
    IF s # << >> /\ Head(s) = " " THEN LStrip(Tail(s)) ELSE s

RECURSIVE RStrip(_)
RStrip(s) ==
    IF s # << >> /\ s[Len(s)] = " " THEN RStrip(SubSeq(s, 1, Len(s) - 1)) ELSE s

Strip(s) == RStrip(LStrip(s))

Range(s) == { s[i] : i \in 1..Len(s) }

\* identifiers and cell texts used as inputs
A1     == << "A", "1" >>
A2     == << "A", "2" >>
B9     == << "B", "9" >>
Id25X  == << "2", "5", "X" >>
Id25   == << "2", "5" >>
Id2    == << "2" >>
A25    == << "A", "2", "5" >>
A1sp   == << " ", "A", "1", " " >>
Empty  == << >>
MTR    == << "M", "T", "R" >>
MtrDot == << "M", "t", "r", "." >>
Stk    == << "S", "t", "k" >>
Num12  == << "1", "2" >>
Num1c5 == << "1", ",", "5" >>
\* a null (NaN) spreadsheet cell
Null   == << "<null>" >>

----------------------------------------------------------------------------
(* Product Set Loader: load_varenr / load_product_numbers_from_excel *)

\* a numeric spreadsheet cell is its digits after the tag "#"
IsNumberCell(c) == c # << >> /\ Head(c) = "#"
Num25 == << "#", "2", "5" >>

\* the column read_excel returns is of float dtype when it has an empty cell
\* and every other cell is a number
FloatColumn(col) ==
    /\ \E i \in 1..Len(col) : col[i] = Null
    /\ \A i \in 1..Len(col) : col[i] = Null \/ IsNumberCell(col[i])

\* .astype(str) on one value: text is itself, an int its digits, a float its
\* digits and ".0"
Stringify(c, isFloat) ==
    IF IsNumberCell(c)
    THEN IF isFloat THEN Tail(c) \o << ".", "0" >> ELSE Tail(c)
    ELSE c

\* mutant of StripCell: only leading whitespace is removed
StripCell_Left(c) == LStrip(c)

\* .str.strip() on one value
StripCell(c) == Strip(c)

\* .dropna().astype(str).str.strip(), then values != "", on one column
CleanColumn(col) ==
    LET nonNull  == SelectSeq(col, LAMBDA c : c # Null)
        stripped == [ i \in 1..Len(nonNull) |->
                        StripCell(Stringify(nonNull[i], FloatColumn(col))) ]
    IN  SelectSeq(stripped, LAMBDA c : c # Empty)

\* mutant of DropDuplicates: every occurrence is kept
DropDuplicates_Keep(s) == s

\* .drop_duplicates(): keep the first occurrence of each value, in order
RECURSIVE DropDuplicates(_)
DropDuplicates(s) ==
    IF s = << >> THEN << >>
    ELSE LET init == DropDuplicates(SubSeq(s, 1, Len(s) - 1))
             last == s[Len(s)]
         IN  IF last \in Range(init) THEN init ELSE Append(init, last)

\* meter: load_varenr returns set(values)
load_varenr(col) == Range(DropDuplicates(CleanColumn(col)))

\* H1: load_product_numbers_from_excel returns unique.tolist()
load_product_numbers_from_excel(col) == DropDuplicates(CleanColumn(col))

\* what may be at an input path: a workbook with the 'Varenr.' column, no
\* file, a workbook without the column, a file read_excel cannot read
FileKinds == { "ok", "missing", "no_column", "unreadable" }

\* mutant of LoadRaises: the column check is missing
LoadRaises_NoColumnCheck(kind) ==
    CASE kind = "missing"    -> "FileNotFoundError"
      [] kind = "unreadable" -> "ReadError"
      [] OTHER               -> "none"

\* the exception load_varenr / load_product_numbers_from_excel raises:
\* os.path.isfile fails, read_excel fails, or the column is not there
LoadRaises(kind) ==
    CASE kind = "missing"    -> "FileNotFoundError"
      [] kind = "unreadable" -> "ReadError"
      [] kind = "no_column"  -> "KeyError"
      [] OTHER               -> "none"

\* mutant of SourceAfterLoad: the load empties the column it read
SourceAfterLoad_Consumed(col) == << >>

\* the column in the file once a load has read it: read_excel writes nothing
SourceAfterLoad(col) == col

----------------------------------------------------------------------------
(* Work-List Differ: main() of the incremental scraper, lines 163-166 *)

\* mutant of Sorted: descending order
RECURSIVE Sorted_Descending(_)
Sorted_Descending(S) ==
    IF S = {} THEN << >>
    ELSE LET m == CHOOSE x \in S : \A y \in S \ {x} : StrLess(y, x)
         IN  << m >> \o Sorted_Descending(S \ {m})

\* sorted(S) for a set of strings
RECURSIVE Sorted(_)
Sorted(S) ==
    IF S = {} THEN << >>
    ELSE LET m == CHOOSE x \in S : \A y \in S \ {x} : StrLess(x, y)
         IN  << m >> \o Sorted(S \ {m})

\* mutant of SetDifference: the exclusion list is ignored
SetDifference_NoExclude(full, exclude) == full

\* the set difference of line 163
SetDifference(full, exclude) == full \ exclude

\* mutant of KeepVarenr: the prefix filter is missing
KeepVarenr_All(v) == TRUE

\* the predicate of line 166: keep v unless it starts with "25"
KeepVarenr(v) == ~ StartsWith(v, Id25)

\* to_scrape as main() computes it
ToScrape(full, exclude) ==
    SelectSeq(Sorted(SetDifference(full, exclude)), KeepVarenr)

----------------------------------------------------------------------------
(* Record Extractor.  A page is [thead, rows]: thead the header cells of    *)
(* the table (each a sequence of words and " " tokens), rows the tbody rows *)
(* (each a sequence of td texts).                                           *)

\* str.lower() on the header words used
Lower(w) ==
    CASE w = "Meter"      -> "meter"
      [] w = "Pr."        -> "pr."
      [] w = "Rulle"      -> "rulle"
      [] w = "Basisenhed" -> "basisenhed"
      [] w = "BASISENHED" -> "basisenhed"
      [] OTHER            -> w

\* normalize_header / _normalize_header_text: " ".join(text.lower().split());
\* the result is the sequence of lower-case words (joined by single spaces)
normalize_header(text) ==
    LET words == SelectSeq(text, LAMBDA t : t # " ")
    IN  [ i \in 1..Len(words) |-> Lower(words[i]) ]

HeaderMeter == << "meter", "pr.", "rulle" >>
HeaderBasis == << "basisenhed" >>

\* the header elements: the thead th cells, else the cells of the first
\* tbody row
HeaderElements(pg) ==
    IF pg.thead # << >> THEN pg.thead
    ELSE IF pg.rows # << >> THEN pg.rows[1]
    ELSE << >>

\* build_col_map (meter): zero-based index of each non-empty header, the
\* last one winning; NoIdx stands for "not in the dict"
NoIdx == -1
build_col_map(pg, name) ==
    LET hs   == HeaderElements(pg)
        hits == { i \in 1..Len(hs) :
                    /\ Strip(hs[i]) # << >>
                    /\ normalize_header(Strip(hs[i])) = name }
    IN  IF hits = {} THEN NoIdx
        ELSE (CHOOSE i \in hits : \A j \in hits : j <= i) - 1

\* mutant of build_column_index_map: of two headers of one name the first wins
build_column_index_map_FirstWins(pg, name) ==
    LET hs   == HeaderElements(pg)
        hits == { i \in 1..Len(hs) :
                    /\ Strip(hs[i]) # << >>
                    /\ normalize_header(Strip(hs[i])) = name }
    IN  IF hits = {} THEN NoIdx
        ELSE (CHOOSE i \in hits : \A j \in hits : i <= j) - 1

\* build_column_index_map (H1): col_names keeps "" for empty headers, the
\* dict comprehension keeps the non-empty names, the last index winning
build_column_index_map(pg, name) ==
    LET hs        == HeaderElements(pg)
        col_names == [ i \in 1..Len(hs) |->
                         IF Strip(hs[i]) # << >>
                         THEN normalize_header(Strip(hs[i])) ELSE << >> ]
        hits      == { i \in 1..Len(hs) : col_names[i] # << >> /\ col_names[i] = name }
    IN  IF hits = {} THEN NoIdx
        ELSE (CHOOSE i \in hits : \A j \in hits : j <= i) - 1

\* XPath normalize-space(): strip, and collapse inner runs of whitespace
RECURSIVE Collapse(_)
Collapse(s) ==
    IF Len(s) < 2 THEN s
    ELSE IF s[1] = " " /\ s[2] = " " THEN Collapse(Tail(s))
    ELSE << s[1] >> \o Collapse(Tail(s))

NormalizeSpace(s) == Strip(Collapse(s))

\* XPath contains(s, sub)
Contains(s, sub) ==
    \E i \in 1..(Len(s) - Len(sub) + 1) : SubSeq(s, i, i + Len(sub) - 1) = sub

\* mutant of FindRow: the first row of the table when no row matches
FindRow_FirstRow(pg, varenr) == IF pg.rows = << >> THEN 0 ELSE 1

\* mutant of FindRow: the first row with a td containing varenr, whether or
\* not another row has a td equal to it
FindRow_SubstringOnly(pg, varenr) ==
    LET sub == { r \in 1..Len(pg.rows) :
                   \E c \in 1..Len(pg.rows[r]) : Contains(NormalizeSpace(pg.rows[r][c]), varenr) }
    IN  IF sub # {} THEN CHOOSE r \in sub : \A q \in sub : r <= q ELSE 0

\* the two find_element calls: first row with a td equal to varenr, else
\* first row with a td containing it; 0 when both raise
FindRow(pg, varenr) ==
    LET exact == { r \in 1..Len(pg.rows) :
                     \E c \in 1..Len(pg.rows[r]) : NormalizeSpace(pg.rows[r][c]) = varenr }
        sub   == { r \in 1..Len(pg.rows) :
                     \E c \in 1..Len(pg.rows[r]) : Contains(NormalizeSpace(pg.rows[r][c]), varenr) }
        first(S) == CHOOSE r \in S : \A q \in S : r <= q
    IN  IF exact # {} THEN first(exact)
        ELSE IF sub # {} THEN first(sub)
        ELSE 0

\* str.replace(old, new) for one-character old
ReplaceAll(s, old, new) == [ i \in 1..Len(s) |-> IF s[i] = old THEN new ELSE s[i] ]

\* str.replace(old, "", 1): delete the first occurrence
RECURSIVE RemoveFirst(_, _)
RemoveFirst(s, old) ==
    IF s = << >> THEN << >>
    ELSE IF Head(s) = old THEN Tail(s)
    ELSE << Head(s) >> \o RemoveFirst(Tail(s), old)

Digits == { "0", "1", "2", "3", "4", "5", "6", "7", "8", "9" }

\* str.isdigit(): non-empty and all digits
IsDigit(s) == s # << >> /\ \A i \in 1..Len(s) : s[i] \in Digits

\* mutant of IsNumeric: any non-empty run of digits and separators passes
IsNumeric_AnySeparators(s) ==
    s # << >> /\ \A i \in 1..Len(s) : s[i] \in Digits \cup { ",", "." }

\* the numeric-string rule of the cleanup
IsNumeric(s) == IsDigit(RemoveFirst(ReplaceAll(s, ",", "."), "."))

AllowedUnits == { MTR, MtrDot }

\* what cells[i] gives when i is not an index of the list
CellIndexError == << "<IndexError>" >>

\* cells[i].text.strip(), i zero-based
CellText(cells, i) ==
    IF i >= 0 /\ i < Len(cells) THEN Strip(cells[i + 1]) ELSE CellIndexError

\* mutant of InRow: the header index is never used
InRow_Never(i, cells) == FALSE

\* mutant of InRow: the index is not compared with the length of the row
InRow_NoLengthCheck(i, cells) == i # NoIdx

\* mutant of InRow: the header index is used only in a row too short for
\* the fallback position of meter_pr_rulle
InRow_FallbackFirst(i, cells) == i # NoIdx /\ i < Len(cells) /\ Len(cells) <= 4

\* idx is not None and idx < len(cells)
InRow(i, cells) == i # NoIdx /\ i < Len(cells)

\* the td cells of the located row
RowCells(pg, r) == IF r = 0 THEN << >> ELSE pg.rows[r]

\* extract_metrics (meter) up to the cleanup: the located row and the text
\* each field is read from
LookupMetrics(pg, varenr) ==
    LET r      == FindRow(pg, varenr)
        cells  == RowCells(pg, r)
        field(header, key) ==
            LET i == build_col_map(pg, header)
            IN  IF InRow(i, cells) THEN CellText(cells, i)
                ELSE IF key = "meter_pr_rulle" /\ Len(cells) > 4 THEN CellText(cells, 4)
                ELSE IF key = "basisenhed" /\ Len(cells) > 6 THEN CellText(cells, 6)
                ELSE Empty
    IN  [ called         |-> TRUE,
          row            |-> r,
          meter_pr_rulle |-> IF r = 0 THEN Empty ELSE field(HeaderMeter, "meter_pr_rulle"),
          basisenhed     |-> IF r = 0 THEN Empty ELSE field(HeaderBasis, "basisenhed") ]

\* extract_table_metrics (H1) up to the cleanup
LookupTableMetrics(pg, product_number) ==
    LET r      == FindRow(pg, product_number)
        cells  == RowCells(pg, r)
        field(header_text, field_key) ==
            LET i == build_column_index_map(pg, header_text)
                fallback_idx == IF field_key = "meter_pr_rulle" THEN 4
                                ELSE IF field_key = "basisenhed" THEN 6
                                ELSE NoIdx
            IN  IF InRow(i, cells) THEN CellText(cells, i)
                ELSE IF fallback_idx # NoIdx /\ fallback_idx < Len(cells)
                     THEN CellText(cells, fallback_idx)
                ELSE Empty
    IN  [ called         |-> TRUE,
          row            |-> r,
          meter_pr_rulle |-> IF r = 0 THEN Empty ELSE field(HeaderMeter, "meter_pr_rulle"),
          basisenhed     |-> IF r = 0 THEN Empty ELSE field(HeaderBasis, "basisenhed") ]

\* a read of a cell outside the row raised IndexError
RaisesIndexError(raw) ==
    raw.meter_pr_rulle = CellIndexError \/ raw.basisenhed = CellIndexError

\* mutant of Cleanup: the number is kept in the form the test gave it
Cleanup_Normalised(raw) ==
    LET tested == RemoveFirst(ReplaceAll(raw.meter_pr_rulle, ",", "."), ".")
    IN  [ meter_pr_rulle |-> IF IsDigit(tested) THEN tested ELSE Empty,
          basisenhed     |-> IF raw.basisenhed \in AllowedUnits THEN raw.basisenhed ELSE Empty ]

\* the cleanup: a value failing its rule becomes ""
Cleanup(raw) ==
    [ meter_pr_rulle |-> IF IsNumeric(raw.meter_pr_rulle) THEN raw.meter_pr_rulle ELSE Empty,
      basisenhed     |-> IF raw.basisenhed \in AllowedUnits THEN raw.basisenhed ELSE Empty ]

\* extract_metrics (meter)
extract_metrics(pg, varenr) == Cleanup(LookupMetrics(pg, varenr))

\* extract_table_metrics (H1)
extract_table_metrics(pg, product_number) == Cleanup(LookupTableMetrics(pg, product_number))

----------------------------------------------------------------------------
(* Inputs of a run *)

\* longest 'Varenr.' column of the full product list
MaxCol == 2

\* latest clock value the model follows
MaxTime == 150

\* time.sleep(60) of periodic_save
Interval == 60

\* the clock advances in steps of half an interval
TickStep == Interval \div 2

RECURSIVE SeqsUpTo(_, _)
SeqsUpTo(S, n) ==
    IF n = 0 THEN { << >> }
    ELSE LET shorter == SeqsUpTo(S, n - 1)
         IN  shorter \cup { Append(q, x) : q \in { t \in shorter : Len(t) = n - 1 }, x \in S }

RunCells        == { A1, A1sp, B9 }
RunColumns      == SeqsUpTo(RunCells, MaxCol)
RunExclColumns  == { << >>, << B9 >> }

\* header texts as the page shows them
HVarenr   == << "Varenr." >>
HMeterRaw == << "Meter", " ", " ", "Pr.", " ", "Rulle" >>
HBasisRaw == << "BASISENHED" >>

\* pages the site may show for an identifier v
PageHeader(v)   == [ thead |-> << HVarenr, HMeterRaw, HBasisRaw >>,
                     rows  |-> << << v, Num12, MTR >> >> ]
PageFallback(v) == [ thead |-> << >>,
                     rows  |-> << << v, Empty, Empty, Empty, Num1c5, Empty, Stk >> >> ]
PageNoRow(v)    == [ thead |-> << HVarenr, HMeterRaw, HBasisRaw >>,
                     rows  |-> << >> ]
RunPages(v)     == { PageHeader(v), PageFallback(v), PageNoRow(v) }
NoPage          == [ thead |-> << >>, rows |-> << >> ]

\* the extractor has not been called for the item
NoMetrics == [ called |-> FALSE, row |-> 0, meter_pr_rulle |-> Empty, basisenhed |-> Empty ]

NewEntry(v) == [ Varenr |-> v, meter_pr_rulle |-> Empty, basisenhed |-> Empty ]
NoEntry     == NewEntry(Empty)

\* the output file: absent, left by an earlier run, written by this run, or
\* truncated (opened for writing, content not yet saved)
SinkAbsent  == [ kind |-> "absent",  rows |-> << >> ]
SinkOld     == [ kind |-> "old",     rows |-> << NewEntry(A2) >> ]
SinkPartial == [ kind |-> "partial", rows |-> << >> ]

----------------------------------------------------------------------------
(* main() and periodic_save() *)

\* no delay has been slept
NoDelay == -1

\* the file is not there
NoFile == << Null >>

\* the state of main() and of the save thread when the program starts
InitRun ==
    /\ delay = NoDelay
    /\ flushesAfterStop = 0
    /\ lastWriter = "none"
    /\ merged1 = NoFile
    /\ session = 0
    /\ firstWork = << >>
    /\ loadError = "none"
    /\ found = FALSE
    /\ rawMetrics = NoMetrics
    /\ full_list = {}
    /\ exclude_list = {}
    /\ to_scrape = << >>
    /\ pcMain = "load"
    /\ idx = 1
    /\ page = NoPage
    /\ entry = NoEntry
    /\ results = << >>
    /\ appendedAt = << >>
    /\ driver = "none"
    /\ stop_event = FALSE
    /\ pcSave = "unborn"
    /\ wake = 0
    /\ snapMain = << >>
    /\ snapSave = << >>
    /\ now = 0
    /\ abort = "none"
    /\ failedWrites = 0
    /\ cycles = 0
    /\ lastCycle = [ len |-> 0, wrote |-> FALSE ]
    /\ events = << >>

\* the input files of a run: the column of a file that is no workbook with
\* the column is empty; with samePath both paths name one file
InitFiles(fullColumns, exclColumns) ==
    /\ script \in { "meter", "H1" }
    /\ samePath \in IF script = "meter" THEN BOOLEAN ELSE { FALSE }
    /\ fileKind \in { k \in [ full : FileKinds, excl : FileKinds ] :
                        /\ script = "H1" => k.excl = "ok"
                        /\ samePath => k.excl = k.full }
    /\ fullCol \in IF fileKind.full = "ok" THEN fullColumns ELSE { << >> }
    /\ exclCol \in IF samePath THEN { fullCol }
                   ELSE IF script = "meter" /\ fileKind.excl = "ok" THEN exclColumns
                   ELSE { << >> }

Init ==
    /\ InitFiles(RunColumns, RunExclColumns)
    /\ sink \in { SinkAbsent, SinkOld }
    /\ InitRun

\* mutant of CleanupOrder: the final write comes before driver.quit()
CleanupOrder_FlushFirst == << "set_stop", "join", "write", "quit" >>

\* mutant of CleanupOrder: the final write does not wait for the join
CleanupOrder_NoJoin == << "quit", "set_stop", "write", "join" >>

\* the calls main() makes after the for loop, in the order it makes them
CleanupOrder == << "quit", "set_stop", "join", "write" >>

\* the position after position pc of the cleanup
AfterCleanup(pc) ==
    LET k == CHOOSE i \in 1..Len(CleanupOrder) : CleanupOrder[i] = pc
    IN  IF k = Len(CleanupOrder) THEN "done" ELSE CleanupOrder[k + 1]

\* mutant of LoopTarget: main() ends after the loop, without the cleanup
LoopTarget_SkipCleanup(i) == IF i <= Len(to_scrape) THEN "search" ELSE "done"

\* where the for loop goes with index i: the next item, or the cleanup
LoopTarget(i) == IF i <= Len(to_scrape) THEN "search" ELSE CleanupOrder[1]

\* an uncaught exception in main(): the process ends, and the daemon save
\* thread with it, wherever it is
Crash(why) ==
    /\ abort' = why
    /\ pcMain' = "crashed"
    /\ pcSave' = IF pcSave \in { "unborn", "done", "dead" } THEN pcSave ELSE "killed"

\* mutant of AfterLoadFailure: the return of H1 line 180 is missing
AfterLoadFailure_NoReturn == "init_driver"

\* H1 178-180: the exception of the load is logged and main() returns
AfterLoadFailure == "returned"

\* a load raised err: the incremental scraper lets it leave main(), the
\* full-list scraper returns from main()
LoadFailed(err) ==
    /\ loadError' = err
    /\ IF script = "meter"
       THEN /\ abort' = "load"
            /\ pcMain' = "crashed"
       ELSE /\ abort' = abort
            /\ pcMain' = AfterLoadFailure
    /\ UNCHANGED << full_list, exclude_list, to_scrape >>

\* meter 161-162: both loads, the second reading what the first left when
\* both paths name one file; H1 175-180: the load
Load ==
    /\ pcMain = "load"
    /\ LET fullAfter == SourceAfterLoad(fullCol)
           exclSrc   == IF samePath THEN fullAfter ELSE exclCol
           exclAfter == SourceAfterLoad(exclSrc)
           err1      == LoadRaises(fileKind.full)
           err2      == LoadRaises(fileKind.excl)
       IN  IF script = "meter"
           THEN IF err1 # "none"
                THEN /\ LoadFailed(err1)
                     /\ UNCHANGED << fullCol, exclCol >>
                ELSE IF err2 # "none"
                THEN /\ LoadFailed(err2)
                     /\ fullCol' = fullAfter
                     /\ UNCHANGED exclCol
                ELSE /\ full_list' = load_varenr(fullCol)
                     /\ exclude_list' = load_varenr(exclSrc)
                     /\ fullCol' = IF samePath THEN exclAfter ELSE fullAfter
                     /\ exclCol' = exclAfter
                     /\ pcMain' = "diff"
                     /\ UNCHANGED << to_scrape, loadError, abort >>
           ELSE IF err1 # "none"
                THEN /\ LoadFailed(err1)
                     /\ UNCHANGED << fullCol, exclCol >>
                ELSE /\ to_scrape' = load_product_numbers_from_excel(fullCol)
                     /\ fullCol' = fullAfter
                     /\ pcMain' = "init_driver"
                     /\ UNCHANGED << full_list, exclude_list, exclCol, loadError, abort >>
    /\ UNCHANGED << script, delay, flushesAfterStop, lastWriter, merged1, session, firstWork, fileKind, samePath, found, rawMetrics, idx, page, entry,
                    results, appendedAt, driver, stop_event, pcSave, wake, snapMain,
                    snapSave, sink, now, failedWrites, cycles, lastCycle, events >>

\* meter 163-166
ComputeWorkList ==
    /\ pcMain = "diff"
    /\ to_scrape' = ToScrape(full_list, exclude_list)
    /\ pcMain' = "init_driver"
    /\ UNCHANGED << script, delay, flushesAfterStop, lastWriter, merged1, session, firstWork, fileKind, samePath, loadError, found, rawMetrics, fullCol, exclCol, full_list, exclude_list, idx, page, entry,
                    results, appendedAt, driver, stop_event, pcSave, wake, snapMain,
                    snapSave, sink, now, abort, failedWrites, cycles, lastCycle, events >>

\* meter 170-174, H1 182-185
InitDriver ==
    /\ pcMain = "init_driver"
    /\ driver' = "open"
    /\ results' = << >>
    /\ pcMain' = "start_thread"
    /\ UNCHANGED << script, delay, flushesAfterStop, lastWriter, merged1, session, firstWork, fileKind, samePath, loadError, found, rawMetrics, fullCol, exclCol, full_list, exclude_list, to_scrape, idx,
                    page, entry, appendedAt, stop_event, pcSave, wake, snapMain,
                    snapSave, sink, now, abort, failedWrites, cycles, lastCycle, events >>

\* meter 177-180, H1 188-191; the for loop is entered
StartThread ==
    /\ pcMain = "start_thread"
    /\ stop_event' = FALSE
    /\ pcSave' = "check"
    /\ pcMain' = LoopTarget(idx)
    /\ UNCHANGED << script, delay, flushesAfterStop, lastWriter, merged1, session, firstWork, fileKind, samePath, loadError, found, rawMetrics, fullCol, exclCol, full_list, exclude_list, to_scrape, idx,
                    page, entry, results, appendedAt, driver, wake, snapMain, snapSave,
                    sink, now, abort, failedWrites, cycles, lastCycle, events >>

\* search_and_open_product (meter 62-76): True when the product opens, False
\* on TimeoutException, any other exception propagates
search_and_open_product(outcome) ==
    CASE outcome = "found"   -> "true"
      [] outcome = "timeout" -> "false"
      [] OTHER               -> "raise"

\* search_and_open_product (H1 58-78): False on any exception
search_and_open_product_H1(outcome) ==
    IF outcome = "found" THEN "true" ELSE "false"

LocateOutcomes == { "found", "timeout", "error" }

\* mutant of AfterSearch: the extractor is called whatever the search returned
AfterSearch_AlwaysExtract(r) == "extract"

\* meter 185, H1 201: the extractor is called only when the search returned True
AfterSearch(r) == IF r = "true" THEN "extract" ELSE "append"

\* meter 183-185, H1 194-200: the entry is created and the product searched;
\* pages[v] are the pages the site may show for v
SearchOn(pages) ==
    /\ pcMain = "search"
    /\ entry' = NewEntry(to_scrape[idx])
    /\ \E outcome \in LocateOutcomes :
         LET r == IF script = "meter" THEN search_and_open_product(outcome)
                  ELSE search_and_open_product_H1(outcome)
         IN  IF r = "raise"
             THEN /\ Crash("locate")
                  /\ UNCHANGED << page, found >>
             ELSE /\ found' = (r = "true")
                  /\ IF r = "true"
                     THEN \E pg \in pages[to_scrape[idx]] : page' = pg
                     ELSE UNCHANGED page
                  /\ pcMain' = AfterSearch(r)
                  /\ UNCHANGED << abort, pcSave >>
    /\ delay' = NoDelay
    /\ UNCHANGED << script, flushesAfterStop, lastWriter, merged1, session, firstWork, fileKind, samePath, loadError, rawMetrics, fullCol, exclCol,
                    full_list, exclude_list, to_scrape, idx, results, appendedAt, driver,
                    stop_event, wake, snapMain, snapSave, sink, now, failedWrites, cycles,
                    lastCycle, events >>

Search == SearchOn([ v \in Range(to_scrape) |-> RunPages(v) ])

\* meter 186-187, H1 202-204: the extractor runs outside any try block, so
\* an exception of the driver in it (a stale element, a lost session) leaves
\* main(), and so would an IndexError of a cell read
Extract ==
    /\ pcMain = "extract"
    /\ \E returns \in BOOLEAN :
         LET raw == IF script = "meter"
                    THEN LookupMetrics(page, entry.Varenr)
                    ELSE LookupTableMetrics(page, entry.Varenr)
             metrics == IF script = "meter"
                        THEN extract_metrics(page, entry.Varenr)
                        ELSE extract_table_metrics(page, entry.Varenr)
         IN  IF ~ returns
             THEN /\ Crash("extract")
                  /\ UNCHANGED << entry, rawMetrics >>
             ELSE IF RaisesIndexError(raw)
             THEN /\ Crash("extract_data")
                  /\ UNCHANGED << entry, rawMetrics >>
             ELSE /\ rawMetrics' = raw
                  /\ entry' = [ entry EXCEPT !.meter_pr_rulle = metrics.meter_pr_rulle,
                                              !.basisenhed = metrics.basisenhed ]
                  /\ pcMain' = "append"
                  /\ UNCHANGED << abort, pcSave >>
    /\ UNCHANGED << script, delay, flushesAfterStop, lastWriter, merged1, session, firstWork, fileKind, samePath, loadError, found, fullCol, exclCol,
                    full_list, exclude_list, to_scrape, idx, page, results, appendedAt,
                    driver, stop_event, wake, snapMain, snapSave, sink, now, failedWrites,
                    cycles, lastCycle, events >>

\* mutant of AppendTo: the record replaces the buffer
AppendTo_Replace(res, e) == << e >>

\* mutant of AppendTo: the record is put in front
AppendTo_Front(res, e) == << e >> \o res

\* results.append(entry)
AppendTo(res, e) == Append(res, e)

\* meter 188, H1 205: the record is appended; meter goes on with the loop
AppendEntry ==
    /\ pcMain = "append"
    /\ results' = AppendTo(results, entry)
    /\ appendedAt' = Append(appendedAt, now)
    /\ idx' = idx + 1
    /\ pcMain' = IF script = "H1" THEN "delay" ELSE LoopTarget(idx + 1)
    /\ found' = FALSE
    /\ rawMetrics' = NoMetrics
    /\ page' = NoPage
    /\ UNCHANGED << script, delay, flushesAfterStop, lastWriter, merged1, session, firstWork, fileKind, samePath, loadError, fullCol, exclCol, full_list,
                    exclude_list, to_scrape, entry, driver, stop_event, pcSave, wake, snapMain, snapSave, sink,
                    now, abort, failedWrites, cycles, lastCycle, events >>

\* --min-delay / --max-delay (H1 170-171), in tenths of a second
MinDelay == 5
MaxDelay == 10

\* values random.uniform(min_delay, max_delay) may return: the shortest and
\* the longest
DelayValues == { MinDelay, MaxDelay }

\* H1 206-207: the delay between products
Delay ==
    /\ pcMain = "delay"
    /\ \E d \in DelayValues : delay' = d
    /\ pcMain' = LoopTarget(idx)
    /\ UNCHANGED << script, flushesAfterStop, lastWriter, merged1, session, firstWork, fileKind, samePath, loadError, found, rawMetrics, fullCol, exclCol, full_list, exclude_list, to_scrape, idx,
                    page, entry, results, appendedAt, driver, stop_event, pcSave, wake,
                    snapMain, snapSave, sink, now, abort, failedWrites, cycles,
                    lastCycle, events >>

\* driver.quit()
Quit ==
    /\ pcMain = "quit"
    /\ driver' = "quit"
    /\ events' = Append(events, "quit")
    /\ pcMain' = AfterCleanup("quit")
    /\ UNCHANGED << script, delay, flushesAfterStop, lastWriter, merged1, session, firstWork, fileKind, samePath, loadError, found, rawMetrics, fullCol, exclCol, full_list, exclude_list, to_scrape, idx,
                    page, entry, results, appendedAt, stop_event, pcSave, wake, snapMain,
                    snapSave, sink, now, abort, failedWrites, cycles, lastCycle >>

\* stop_event.set()
SetStop ==
    /\ pcMain = "set_stop"
    /\ stop_event' = TRUE
    /\ events' = Append(events, "set_stop")
    /\ pcMain' = AfterCleanup("set_stop")
    /\ UNCHANGED << script, delay, flushesAfterStop, lastWriter, merged1, session, firstWork, fileKind, samePath, loadError, found, rawMetrics, fullCol, exclCol, full_list, exclude_list, to_scrape, idx,
                    page, entry, results, appendedAt, driver, pcSave, wake, snapMain,
                    snapSave, sink, now, abort, failedWrites, cycles, lastCycle >>

\* the save thread has ended (returned, or died of an exception)
SaveThreadEnded == pcSave \in { "done", "dead" }

\* save_thread.join(): returns once the thread has ended
Join ==
    /\ pcMain = "join"
    /\ SaveThreadEnded
    /\ events' = Append(events, "join")
    /\ pcMain' = AfterCleanup("join")
    /\ UNCHANGED << script, delay, flushesAfterStop, lastWriter, merged1, session, firstWork, fileKind, samePath, loadError, found, rawMetrics, fullCol, exclCol, full_list, exclude_list, to_scrape, idx,
                    page, entry, results, appendedAt, driver, stop_event, pcSave, wake,
                    snapMain, snapSave, sink, now, abort, failedWrites, cycles, lastCycle >>

----------------------------------------------------------------------------
(* Result Sink: write_excel (meter 138-141), write_outputs (H1 143-152).     *)
(* to_excel opens the file for writing, which truncates it, and saves the    *)
(* rows when it closes it; it can fail at either point.                      *)

\* does the function catch the exception of a failed write?
write_excel_catches   == FALSE
write_outputs_catches == TRUE
WriteCatches == IF script = "meter" THEN write_excel_catches ELSE write_outputs_catches

\* mutant of WriteSkips: the write is attempted for an empty list as well
WriteSkips_Never(res) == FALSE

\* "if results:" / "if not results: return"
WriteSkips(res) == res = << >>

\* mutant of SinkAfterWrite: the last row is not saved
SinkAfterWrite_DropLast(old, rows) ==
    [ kind |-> "new", rows |-> SubSeq(rows, 1, Len(rows) - 1) ]

\* the file once to_excel has saved the rows
SinkAfterWrite(old, rows) == [ kind |-> "new", rows |-> rows ]

\* write_excel(results, args.output_xlsx) of the cleanup is called
FinalWrite ==
    /\ pcMain = "write"
    /\ IF WriteSkips(results)
       THEN /\ events' = events \o << "write", "write_skipped" >>
            /\ pcMain' = AfterCleanup("write")
            /\ UNCHANGED << sink, snapMain, failedWrites, abort, pcSave, lastWriter >>
       ELSE \E opens \in BOOLEAN :
              IF opens
              THEN /\ sink' = SinkPartial
                   /\ lastWriter' = "main"
                   /\ snapMain' = results
                   /\ events' = Append(events, "write")
                   /\ pcMain' = "writing"
                   /\ UNCHANGED << failedWrites, abort, pcSave >>
              ELSE /\ failedWrites' = failedWrites + 1
                   /\ UNCHANGED << sink, snapMain, lastWriter >>
                   /\ IF WriteCatches
                      THEN /\ events' = events \o << "write", "write_failed" >>
                           /\ pcMain' = AfterCleanup("write")
                           /\ UNCHANGED << abort, pcSave >>
                      ELSE /\ events' = Append(events, "write")
                           /\ Crash("write")
    /\ UNCHANGED << script, delay, flushesAfterStop, merged1, session, firstWork, fileKind, samePath, loadError, found, rawMetrics, fullCol, exclCol, full_list, exclude_list, to_scrape, idx,
                    page, entry, results, appendedAt, driver, stop_event, wake, snapSave,
                    now, cycles, lastCycle >>

\* the final write saves its rows, or fails midway
FinalWriteEnd ==
    /\ pcMain = "writing"
    /\ \E saved \in BOOLEAN :
         IF saved
         THEN /\ sink' = SinkAfterWrite(sink, snapMain)
              /\ events' = Append(events, "write_ok")
              /\ pcMain' = AfterCleanup("write")
              /\ UNCHANGED << failedWrites, abort, pcSave >>
         ELSE /\ failedWrites' = failedWrites + 1
              /\ UNCHANGED sink
              /\ IF WriteCatches
                 THEN /\ events' = Append(events, "write_failed")
                      /\ pcMain' = AfterCleanup("write")
                      /\ UNCHANGED << abort, pcSave >>
                 ELSE /\ UNCHANGED events
                      /\ Crash("write")
    /\ snapMain' = << >>
    /\ UNCHANGED << script, delay, flushesAfterStop, lastWriter, merged1, session, firstWork, fileKind, samePath, loadError, found, rawMetrics, fullCol, exclCol, full_list, exclude_list, to_scrape, idx,
                    page, entry, results, appendedAt, driver, stop_event, wake, snapSave,
                    now, cycles, lastCycle >>

----------------------------------------------------------------------------
(* periodic_save (meter 144-148, H1 154-158) *)

\* mutant of SleepEnd: the thread sleeps two intervals
SleepEnd_Twice(t) == t + 2 * Interval

\* the clock value at which a time.sleep(60) begun at t ends
SleepEnd(t) == t + Interval

\* mutant of StopSeen: the loop test never sees the stop event
StopSeen_Never(ev) == FALSE

\* stop_event.is_set()
StopSeen(ev) == ev

\* while not stop_event.is_set(): ... time.sleep(60) begins
SaveCheck ==
    /\ pcSave = "check"
    /\ IF StopSeen(stop_event)
       THEN /\ pcSave' = "done"
            /\ UNCHANGED wake
       ELSE /\ pcSave' = "sleep"
            /\ wake' = SleepEnd(now)
    /\ UNCHANGED << script, delay, flushesAfterStop, lastWriter, merged1, session, firstWork, fileKind, samePath, loadError, found, rawMetrics, fullCol, exclCol, full_list, exclude_list, to_scrape, pcMain,
                    idx, page, entry, results, appendedAt, driver, stop_event, snapMain,
                    snapSave, sink, now, abort, failedWrites, cycles, lastCycle, events >>

\* the sleep is over and write_excel(results, path) is called
SaveWake ==
    /\ pcSave = "sleep"
    /\ now >= wake
    /\ flushesAfterStop' = IF stop_event THEN flushesAfterStop + 1 ELSE flushesAfterStop
    /\ IF WriteSkips(results)
       THEN /\ cycles' = cycles + 1
            /\ lastCycle' = [ len |-> 0, wrote |-> FALSE ]
            /\ pcSave' = "check"
            /\ UNCHANGED << sink, snapSave, failedWrites, lastWriter >>
       ELSE \E opens \in BOOLEAN :
              IF opens
              THEN /\ sink' = SinkPartial
                   /\ lastWriter' = "save"
                   /\ snapSave' = results
                   /\ pcSave' = "writing"
                   /\ UNCHANGED << failedWrites, cycles, lastCycle >>
              ELSE /\ failedWrites' = failedWrites + 1
                   /\ UNCHANGED << sink, snapSave, lastWriter >>
                   /\ IF WriteCatches
                      THEN /\ cycles' = cycles + 1
                           /\ lastCycle' = [ len |-> Len(results), wrote |-> FALSE ]
                           /\ pcSave' = "check"
                      ELSE /\ pcSave' = "dead"
                           /\ UNCHANGED << cycles, lastCycle >>
    /\ UNCHANGED << script, delay, merged1, session, firstWork, fileKind, samePath, loadError, found, rawMetrics, fullCol, exclCol, full_list, exclude_list, to_scrape, pcMain,
                    idx, page, entry, results, appendedAt, driver, stop_event, wake,
                    snapMain, now, abort, events >>

\* the periodic write saves its rows, or fails midway
SaveWriteEnd ==
    /\ pcSave = "writing"
    /\ \E saved \in BOOLEAN :
         IF saved
         THEN /\ sink' = SinkAfterWrite(sink, snapSave)
              /\ cycles' = cycles + 1
              /\ lastCycle' = [ len |-> Len(snapSave), wrote |-> TRUE ]
              /\ pcSave' = "check"
              /\ UNCHANGED failedWrites
         ELSE /\ failedWrites' = failedWrites + 1
              /\ UNCHANGED sink
              /\ IF WriteCatches
                 THEN /\ cycles' = cycles + 1
                      /\ lastCycle' = [ len |-> Len(snapSave), wrote |-> FALSE ]
                      /\ pcSave' = "check"
                 ELSE /\ pcSave' = "dead"
                      /\ UNCHANGED << cycles, lastCycle >>
    /\ snapSave' = << >>
    /\ UNCHANGED << script, delay, flushesAfterStop, lastWriter, merged1, session, firstWork, fileKind, samePath, loadError, found, rawMetrics, fullCol, exclCol, full_list, exclude_list, to_scrape, pcMain,
                    idx, page, entry, results, appendedAt, driver, stop_event, wake,
                    snapMain, now, abort, events >>

----------------------------------------------------------------------------
(* Time.  The steps of a sink write, the loop test of periodic_save and the  *)
(* end of the cleanup take no time on the scale of the clock; a sleep ends   *)
(* when its time is up.                                                      *)

Tick ==
    /\ pcMain \in { "search", "extract", "append", "delay", "quit", "set_stop", "join" }
    /\ pcSave \in { "sleep", "done", "dead" }
    /\ pcSave = "sleep" => now < wake
    /\ ~ (pcMain = "join" /\ SaveThreadEnded)
    /\ now + TickStep <= MaxTime
    /\ now' = now + TickStep
    /\ UNCHANGED << script, delay, flushesAfterStop, lastWriter, merged1, session, firstWork, fileKind, samePath, loadError, found, rawMetrics, fullCol, exclCol, full_list, exclude_list, to_scrape, pcMain,
                    idx, page, entry, results, appendedAt, driver, stop_event, pcSave,
                    wake, snapMain, snapSave, sink, abort, failedWrites, cycles,
                    lastCycle, events >>

Next ==
    \/ Load
    \/ ComputeWorkList
    \/ InitDriver
    \/ StartThread
    \/ Search
    \/ Extract
    \/ AppendEntry
    \/ Delay
    \/ Quit
    \/ SetStop
    \/ Join
    \/ FinalWrite
    \/ FinalWriteEnd
    \/ SaveCheck
    \/ SaveWake
    \/ SaveWriteEnd
    \/ Tick

Spec == Init /\ [][Next]_vars

----------------------------------------------------------------------------
(* The work-list diff on its own: the incremental scraper up to line 166,   *)
(* over every pair of identifier sets drawn from DiffIds.                    *)

DiffIds == { A1, A2, Id25X, Id25, Id2, A25 }

InitDiff ==
    /\ script = "meter"
    /\ samePath = FALSE
    /\ fileKind = [ full |-> "ok", excl |-> "ok" ]
    /\ \E full \in SUBSET DiffIds : fullCol = Sorted(full)
    /\ \E exclude \in SUBSET DiffIds : exclCol = Sorted(exclude)
    /\ sink = SinkAbsent
    /\ InitRun

NextDiff ==
    \/ Load
    \/ ComputeWorkList

SpecDiff == InitDiff /\ [][NextDiff]_vars

(* Sessions with the default paths: a run of the incremental scraper that
   meets no failure, a run of the merger, a second run of the scraper.  The
   scraper reads its exclusion list from ExcludeDefaultPath (exclCol) and
   writes results_new.xlsx (sink). *)

\* --exclude-xlsx default (meter 156)
ExcludeDefaultPath == "results_merged.xlsx"

\* the file name the message of the merger gives (results_merger.py 13)
MergerPrintedPath == "results_merged.xlsx"

\* the file the merger writes (results_merger.py 11)
MergerOutputPath == "results_merged1.xlsx"

\* a whole run of the incremental scraper in which no call fails: the work
\* list is computed, one record per item is appended and the final write
\* saves them (nothing is written for an empty work list)
ScrapeSession ==
    /\ script = "meter"
    /\ session \in { 0, 2 }
    /\ LET work == ToScrape(load_varenr(fullCol), load_varenr(exclCol))
           recs == [ i \in 1..Len(work) |-> NewEntry(work[i]) ]
       IN  /\ full_list' = load_varenr(fullCol)
           /\ exclude_list' = load_varenr(exclCol)
           /\ to_scrape' = work
           /\ results' = recs
           /\ sink' = IF WriteSkips(recs) THEN sink ELSE SinkAfterWrite(sink, recs)
           /\ firstWork' = IF session = 0 THEN work ELSE firstWork
    /\ session' = session + 1
    /\ pcMain' = "done"
    /\ UNCHANGED << script, delay, flushesAfterStop, lastWriter, merged1, fileKind,
                    samePath, loadError, found, rawMetrics, fullCol, exclCol, idx, page,
                    entry, appendedAt, driver, stop_event, pcSave, wake, snapMain,
                    snapSave, now, abort, failedWrites, cycles, lastCycle, events >>

\* results_merger.py 3-11: results_merged.xlsx and results_new.xlsx are read,
\* concatenated and written to MergerOutputPath
Merger ==
    /\ session = 1
    /\ sink.kind \in { "old", "new" }
    /\ LET df_new    == [ i \in 1..Len(sink.rows) |-> sink.rows[i].Varenr ]
           df_merged == exclCol \o df_new
       IN  IF MergerOutputPath = ExcludeDefaultPath
           THEN /\ exclCol' = df_merged
                /\ UNCHANGED merged1
           ELSE /\ merged1' = df_merged
                /\ UNCHANGED exclCol
    /\ session' = session + 1
    /\ UNCHANGED << script, delay, flushesAfterStop, lastWriter, firstWork, fileKind,
                    samePath, loadError, found, rawMetrics, fullCol, full_list,
                    exclude_list, to_scrape, pcMain, idx, page, entry, results,
                    appendedAt, driver, stop_event, pcSave, wake, snapMain, snapSave,
                    sink, now, abort, failedWrites, cycles, lastCycle, events >>

SessionIds == { A1, A2, B9, Id25X }

InitSessions ==
    /\ script = "meter"
    /\ samePath = FALSE
    /\ fileKind = [ full |-> "ok", excl |-> "ok" ]
    /\ \E full \in SUBSET SessionIds : fullCol = Sorted(full)
    /\ \E exclude \in SUBSET SessionIds : exclCol = Sorted(exclude)
    /\ sink \in { SinkAbsent, SinkOld }
    /\ InitRun

NextSessions ==
    \/ ScrapeSession
    \/ Merger

SpecSessions == InitSessions /\ [][NextSessions]_vars

(* The whole run under fair scheduling: main() and the save thread each take
   their next step when they can, and a join that waits for the sleeping save
   thread lets the clock reach the end of the sleep. *)

\* save_thread.join() blocks while the thread sleeps: time passes until the
\* sleep is over
JoinWait ==
    /\ pcMain = "join"
    /\ pcSave = "sleep"
    /\ now < wake
    /\ now' = wake
    /\ UNCHANGED << script, delay, flushesAfterStop, lastWriter, merged1, session, firstWork, fileKind, samePath, loadError, found,
                    rawMetrics, fullCol, exclCol, full_list, exclude_list, to_scrape,
                    pcMain, idx, page, entry, results, appendedAt, driver, stop_event,
                    pcSave, wake, snapMain, snapSave, sink, abort, failedWrites, cycles,
                    lastCycle, events >>

MainStep ==
    \/ Load
    \/ ComputeWorkList
    \/ InitDriver
    \/ StartThread
    \/ Search
    \/ Extract
    \/ AppendEntry
    \/ Delay
    \/ Quit
    \/ SetStop
    \/ Join
    \/ FinalWrite
    \/ FinalWriteEnd

SaveStep ==
    \/ SaveCheck
    \/ SaveWake
    \/ SaveWriteEnd

LiveColumns == { << >>, << A1 >>, << B9, A1 >> }

InitLive ==
    /\ InitFiles(LiveColumns, RunExclColumns)
    /\ sink \in { SinkAbsent, SinkOld }
    /\ InitRun

NextLive ==
    \/ MainStep
    \/ SaveStep
    \/ Tick
    \/ JoinWait

SpecLive ==
    /\ InitLive
    /\ [][NextLive]_vars
    /\ WF_vars(MainStep)
    /\ WF_vars(SaveStep)
    /\ WF_vars(JoinWait)

(* The loads alone, over key columns with empty cells, text with and without
   surrounding whitespace, whitespace only, and numbers, and over every kind
   of input file. *)
MaxLoadCol == 3

Blank == << " ", " " >>

LoadCells       == { Null, A1, A1sp, Blank, B9, Num25 }
LoadColumns     == SeqsUpTo(LoadCells, MaxLoadCol)
LoadExclColumns == SeqsUpTo({ Null, A1sp, Num25 }, MaxCol)

InitLoad ==
    /\ InitFiles(LoadColumns, LoadExclColumns)
    /\ sink = SinkAbsent
    /\ InitRun

NextLoad == Load

SpecLoad == InitLoad /\ [][NextLoad]_vars

(* The item loop of a run over one product, with every shape of table the
   page may show: headers present, absent, blank, repeated, beyond the row or
   in the first tbody row; no row, one row or two; rows shorter than the
   fallback positions; cell values valid and malformed. *)
HOther       == << "Navn" >>
HBlankHeader == << " " >>

ExtractHeads ==
    { << >>,
      << HVarenr, HMeterRaw, HBasisRaw >>,
      << HVarenr, HBasisRaw >>,
      << HVarenr, HOther, HOther, HOther, HOther, HOther, HBasisRaw, HMeterRaw >>,
      << HVarenr, HBlankHeader, HMeterRaw, HMeterRaw >>,
      << HVarenr, HOther >> }

Bad125  == << "1", ".", "2", ".", "5" >>
Dot     == << "." >>
MTRsp   == << " ", "M", "T", "R", " " >>
Num5dot == << "5", "." >>

\* cell texts, in the order the cells of a row take them
Pool == << Num12, Stk, Num1c5, Bad125, MTR, MtrDot, Empty, Dot, MTRsp, Num5dot >>

\* a row of n cells: the identifier cell, then texts of the pool from shift on
RowOf(id, n, shift) ==
    [ p \in 1..n |-> IF p = 1 THEN id ELSE Pool[((p + shift) % Len(Pool)) + 1] ]

RowLens == { 1, 3, 5, 7, 8 }

\* identifier cells: v, v within blanks, a longer identifier containing v,
\* another product
Padded(v)   == << " " >> \o v \o << " " >>
Longer(v)   == v \o << "0" >>

ExtractRowLists(v) ==
    LET rows(ids, lens, shifts) ==
            { RowOf(id, n, sh) : id \in ids, n \in lens, sh \in shifts }
        all    == rows({ v, Padded(v), Longer(v), B9 }, RowLens, 0..(Len(Pool) - 1))
        before == rows({ Longer(v), B9 }, { 3, 7 }, { 1, 3 })
        after  == rows({ v, Padded(v) }, { 3, 7 }, { 4, 7 })
    IN  { << >> } \cup { << r >> : r \in all }
                 \cup { << q, r >> : q \in before, r \in after }

ExtractPages(v) ==
    { [ thead |-> h, rows |-> rs ] : h \in ExtractHeads, rs \in ExtractRowLists(v) }
    \cup
    { [ thead |-> << >>, rows |-> << h >> \o rs ] :
          h \in ExtractHeads \ { << >> }, rs \in ExtractRowLists(v) }

InitExtract ==
    /\ script \in { "meter", "H1" }
    /\ samePath = FALSE
    /\ fileKind = [ full |-> "ok", excl |-> "ok" ]
    /\ fullCol = << A1 >>
    /\ exclCol = << >>
    /\ sink = SinkAbsent
    /\ InitRun

SearchWide == SearchOn([ v \in Range(to_scrape) |-> ExtractPages(v) ])

NextExtract ==
    \/ Load
    \/ ComputeWorkList
    \/ InitDriver
    \/ StartThread
    \/ SearchWide
    \/ Extract
    \/ AppendEntry
    \/ Delay

SpecExtract == InitExtract /\ [][NextExtract]_vars

----------------------------------------------------------------------------
(* Properties *)

FinalFlushCalled == "write" \in Range(events)
CleanupCalls == SelectSeq(events, LAMBDA e : e \in { "quit", "set_stop", "join", "write" })
FinalFlushSaved == events # << >> /\ events[Len(events)] = "write_ok"

\* C1: no failure of the locate call or of the extraction ends main() with
\* an exception; the item's record is appended and the run goes on.
C1_NoItemFailureAborts == abort \notin { "locate", "extract" }

\* C2: a failed sink write never raises: neither main() nor the save thread
\* ends with the exception of a write, and the save thread keeps cycling.
C2_FlushNeverRaises == abort # "write" /\ pcSave # "dead"

\* C3 as stated: the browser is never released before the final flush has
\* been performed.
C3_FlushBeforeRelease == driver = "quit" => FinalFlushCalled

\* C3 as amended: the cleanup calls are made in the order driver.quit(),
\* stop_event.set(), save_thread.join(), final write; the final flush is never
\* called before the browser is released, and a finished run has made all four.
C3_ReleaseBeforeFlush ==
    /\ CleanupCalls = SubSeq(<< "quit", "set_stop", "join", "write" >>, 1, Len(CleanupCalls))
    /\ FinalFlushCalled => driver = "quit"
    /\ pcMain = "done" => FinalFlushCalled

C3_Witness == pcMain = "done" /\ FinalFlushSaved /\ driver = "quit"

\* C4: once the final flush has been called the stop signal is set and the
\* save thread has ended, so no periodic write is in progress or begins
\* then; the two writers never write at the same time.
C4_NoOverlap ==
    /\ FinalFlushCalled => stop_event /\ SaveThreadEnded
    /\ ~ (pcMain = "writing" /\ pcSave = "writing")

C4_Witness == pcMain = "writing" /\ cycles >= 1 /\ lastCycle.wrote

\* the sink holds exactly the first n records of the buffer
SinkHoldsPrefix(n) == sink = [ kind |-> "new", rows |-> SubSeq(results, 1, n) ]

InSink(i) == sink.kind = "new" /\ i <= Len(sink.rows) /\ sink.rows[i] = results[i]

\* every record appended more than one interval ago is in the sink
OldRecordsSaved ==
    \A i \in 1..Len(results) : now - appendedAt[i] > Interval => InSink(i)

C7_OneRecordPerItem ==
    pcMain = "done" =>
        /\ Len(results) = Len(to_scrape)
        /\ \A i \in 1..Len(results) : results[i].Varenr \in Range(to_scrape)
        /\ \A i, j \in 1..Len(results) : results[i].Varenr = results[j].Varenr => i = j

C7_Witness == pcMain = "done" /\ Len(results) = 2 /\ Len(to_scrape) = 2

\* C8 as stated: at Done the sink equals the complete buffer, for every
\* work list.
C8_SinkIsBuffer == pcMain = "done" => SinkHoldsPrefix(Len(results))

\* C8 as amended: at Done, when the buffer is not empty and the final write
\* saved its rows, the sink is a table of the three columns with one row
\* per work item in processing order, equal to the complete buffer.
C8_SinkIsBufferWhenSaved ==
    (pcMain = "done" /\ results # << >> /\ FinalFlushSaved) =>
        /\ SinkHoldsPrefix(Len(results))
        /\ Len(sink.rows) = Len(to_scrape)
        /\ \A i \in 1..Len(sink.rows) :
              /\ DOMAIN sink.rows[i] = { "Varenr", "meter_pr_rulle", "basisenhed" }
              /\ sink.rows[i].Varenr = to_scrape[i]

C8_Witness == pcMain = "done" /\ FinalFlushSaved /\ Len(sink.rows) = 2

\* the diff has been computed
DiffDone == script = "meter" /\ pcMain = "init_driver"

\* the elements of full - exclude that pass the exclusion predicate
FilteredDifference == { v \in full_list \ exclude_list : ~ StartsWith(v, << "2", "5" >>) }

\* C9: the work list has as many elements as the filtered difference and
\* none of the exclusion list; empty inputs give the empty work list.
C9_DiffLength ==
    DiffDone =>
        /\ Len(to_scrape) = Cardinality(FilteredDifference)
        /\ \A i \in 1..Len(to_scrape) : to_scrape[i] \notin exclude_list
        /\ (full_list = {} => to_scrape = << >>)

C9_Witness ==
    /\ DiffDone /\ Len(to_scrape) = 2
    /\ exclude_list \cap full_list # {} /\ Cardinality(full_list) = 4

\* C10: no identifier of the work list starts with "25", every identifier of
\* full - exclude that does not is kept, and full = {A1, A2, 25X} with
\* exclude = {A2} gives [A1].
C10_PrefixFilter ==
    DiffDone =>
        /\ \A i \in 1..Len(to_scrape) : ~ StartsWith(to_scrape[i], << "2", "5" >>)
        /\ \A v \in full_list \ exclude_list :
              ~ StartsWith(v, << "2", "5" >>) => v \in Range(to_scrape)
        /\ (full_list = { A1, A2, Id25X } /\ exclude_list = { A2 }) => to_scrape = << A1 >>

C10_Witness ==
    DiffDone /\ full_list = { A1, A2, Id25X } /\ exclude_list = { A2 } /\ to_scrape = << A1 >>

\* C11: the work list is in strictly increasing lexicographic order and holds
\* exactly the filtered difference, so it is the one sequence the two input
\* sets determine: equal sets give the same identifiers in the same order.
C11_SortedWorkList ==
    DiffDone =>
        /\ \A i, j \in 1..Len(to_scrape) : i < j => StrLess(to_scrape[i], to_scrape[j])
        /\ Range(to_scrape) = FilteredDifference

C11_Witness ==
    /\ DiffDone /\ Len(to_scrape) = 3
    /\ to_scrape = << Id2, A1, A25 >>

\* the loads of the run are over, and neither raised
LoadOk == pcMain # "load" /\ loadError = "none"

\* t is s without its leading and trailing blanks
IsTrimOf(t, s) ==
    \E a, b \in 0..Len(s) :
        /\ a + b <= Len(s)
        /\ t = SubSeq(s, a + 1, Len(s) - b)
        /\ \A i \in 1..a : s[i] = " "
        /\ \A i \in (Len(s) - b + 1)..Len(s) : s[i] = " "
        /\ t # << >> => t[1] # " " /\ t[Len(t)] # " "

\* ids is exactly what the column col yields
ExactlyLoaded(ids, col) ==
    LET text(i) == Stringify(col[i], FloatColumn(col))
    IN  /\ \A t \in ids :
              /\ t # Empty /\ Head(t) # " " /\ t[Len(t)] # " "
              /\ \E i \in 1..Len(col) : col[i] # Null /\ IsTrimOf(t, text(i))
        /\ \A i \in 1..Len(col) :
              col[i] # Null => \E t \in ids \cup { Empty } : IsTrimOf(t, text(i))

NoRepeats(list) == \A i, j \in 1..Len(list) : i < j => list[i] # list[j]

\* C12: a load that succeeds returns exactly the distinct non-empty trimmed
\* string forms of the non-null entries of the key column: none is empty or
\* has surrounding whitespace, each comes from an entry, every entry that is
\* non-empty after trimming is there, and none is there twice.
C12_LoaderSet ==
    LoadOk =>
        IF script = "meter"
        THEN /\ ExactlyLoaded(full_list, fullCol)
             /\ ExactlyLoaded(exclude_list, exclCol)
        ELSE /\ ExactlyLoaded(Range(to_scrape), fullCol)
             /\ NoRepeats(to_scrape)

C12_Witness ==
    /\ LoadOk /\ script = "H1"
    /\ fullCol = << A1sp, Null, A1 >>
    /\ to_scrape = << A1 >>

\* the kinds of the files the run has tried to load, in the order of the loads
LoadedKinds ==
    IF script = "meter" /\ fileKind.full = "ok"
    THEN << fileKind.full, fileKind.excl >>
    ELSE << fileKind.full >>

\* C13 as stated: a load of a missing file fails with FileNotFoundError, a
\* load of a file without the key column with KeyError, and in every other
\* case the load does not fail.
C13_OnlyTwoFailures ==
    pcMain # "load" =>
        LET last == LoadedKinds[Len(LoadedKinds)]
        IN  /\ last = "missing" => loadError = "FileNotFoundError"
            /\ last = "no_column" => loadError = "KeyError"
            /\ last \notin { "missing", "no_column" } => loadError = "none"

\* C13 as amended: a load of a missing file fails with FileNotFoundError, a
\* load of a file without the key column with KeyError, a load of a file that
\* cannot be read as a workbook with the error of the reader, and a load of a
\* workbook with the key column does not fail.
C13_LoaderFailures ==
    pcMain # "load" =>
        LET last == LoadedKinds[Len(LoadedKinds)]
        IN  /\ last = "missing" => loadError = "FileNotFoundError"
            /\ last = "no_column" => loadError = "KeyError"
            /\ last = "unreadable" => loadError = "ReadError"
            /\ last = "ok" => loadError = "none"

C13_Witness ==
    /\ pcMain # "load" /\ script = "meter"
    /\ fileKind = [ full |-> "ok", excl |-> "no_column" ]
    /\ loadError = "KeyError"

\* C14: once a load has failed with FileNotFoundError or KeyError, on either
\* list, the browser is never opened, the save thread never started, no item
\* searched, nothing appended to results and nothing written to the sink.
C14_LoadFailureAborts ==
    loadError \in { "FileNotFoundError", "KeyError" } =>
        /\ pcMain \in { "crashed", "returned" }
        /\ driver = "none"
        /\ pcSave = "unborn"
        /\ idx = 1 /\ page = NoPage /\ entry = NoEntry
        /\ results = << >>
        /\ sink \in { SinkAbsent, SinkOld }
        /\ events = << >>

C14_Witness ==
    /\ script = "H1" /\ loadError = "KeyError"
    /\ pcMain = "returned" /\ sink = SinkOld

Extracted == pcMain = "append" /\ rawMetrics.called

\* ... and had located a row
Located == Extracted /\ rawMetrics.row # 0

LocatedCells == page.rows[rawMetrics.row]

\* the column map of the running script
ColumnMap(header) ==
    IF script = "meter" THEN build_col_map(page, header)
    ELSE build_column_index_map(page, header)

\* value is what the lookup policy reads for a field with the given header
\* and fallback position
FieldPolicy(header, fallback, value) ==
    LET i == ColumnMap(header)
    IN  IF i # NoIdx /\ i < Len(LocatedCells) THEN value = Strip(LocatedCells[i + 1])
        ELSE IF fallback < Len(LocatedCells) THEN value = Strip(LocatedCells[fallback + 1])
        ELSE value = Empty

\* C16: for a located row, each field is read from the cell at the index the
\* column map gives its header when that index is inside the row, else from
\* position 4 (meter_pr_rulle) or 6 (basisenhed) when that is inside the row,
\* else it is empty.
C16_LookupPolicy ==
    Located =>
        /\ FieldPolicy(HeaderMeter, 4, rawMetrics.meter_pr_rulle)
        /\ FieldPolicy(HeaderBasis, 6, rawMetrics.basisenhed)

C16_Witness ==
    /\ Located
    /\ page.thead = << HVarenr, HOther, HOther, HOther, HOther, HOther, HBasisRaw, HMeterRaw >>
    /\ Len(LocatedCells) = 7
    /\ ColumnMap(HeaderMeter) = 7 /\ rawMetrics.meter_pr_rulle = Num1c5
    /\ ColumnMap(HeaderBasis) = 6 /\ rawMetrics.basisenhed = MTR

\* the numeric-string rule: digits with at most one separator ("," or "."),
\* and at least one digit
NumericString(s) ==
    /\ \A i \in 1..Len(s) : s[i] \in Digits \cup { ",", "." }
    /\ Cardinality({ i \in 1..Len(s) : s[i] \in { ",", "." } }) <= 1
    /\ \E i \in 1..Len(s) : s[i] \in Digits

\* C17: the record of the extractor has meter_pr_rulle empty or a numeric
\* string and basisenhed empty or "MTR" / "Mtr."; each field is the text read
\* for it when that passes the field's rule and empty otherwise, whatever the
\* other field is; "MTR" is kept and "Stk" becomes "".
C17_ValidationPolicy ==
    Extracted =>
        /\ entry.meter_pr_rulle =
               IF NumericString(rawMetrics.meter_pr_rulle)
               THEN rawMetrics.meter_pr_rulle ELSE Empty
        /\ entry.basisenhed =
               IF rawMetrics.basisenhed \in { MTR, MtrDot }
               THEN rawMetrics.basisenhed ELSE Empty
        /\ entry.meter_pr_rulle = Empty \/ NumericString(entry.meter_pr_rulle)
        /\ entry.basisenhed \in { Empty, MTR, MtrDot }
        /\ rawMetrics.basisenhed = MTR => entry.basisenhed = MTR
        /\ rawMetrics.basisenhed = Stk => entry.basisenhed = Empty

C17_Witness ==
    /\ Located
    /\ ColumnMap(HeaderBasis) = 6
    /\ Len(LocatedCells) = 7 /\ LocatedCells[7] = Stk
    /\ entry.basisenhed = Empty
    /\ entry.meter_pr_rulle = Num5dot

\* C18: no shape of the table makes the extractor raise: whatever headers,
\* rows and cell texts the page has, the extractor returns a record for the
\* identifier.
C18_NoDataException ==
    /\ abort # "extract_data"
    /\ Extracted =>
          /\ entry.Varenr = to_scrape[idx]
          /\ CellIndexError \notin { entry.meter_pr_rulle, entry.basisenhed }

C18_Witness ==
    /\ Located
    /\ ColumnMap(HeaderMeter) = 7 /\ ColumnMap(HeaderBasis) = 6
    /\ Len(LocatedCells) = 1
    /\ entry = NewEntry(A1)

\* no cell of the table contains the identifier
NoRowFor(pg, v) ==
    \A r \in 1..Len(pg.rows) : \A c \in 1..Len(pg.rows[r]) :
        ~ Contains(NormalizeSpace(pg.rows[r][c]), v)

\* C19: when no row of the page has a cell equal to or containing the
\* identifier, the extractor returns the record with both fields empty,
\* whatever headers the table has.
C19_NoRowAllEmpty ==
    (Extracted /\ NoRowFor(page, entry.Varenr)) =>
        /\ rawMetrics.row = 0
        /\ entry = NewEntry(to_scrape[idx])
        /\ abort = "none"

C19_Witness ==
    /\ Extracted
    /\ page.thead = << HVarenr, HOther, HOther, HOther, HOther, HOther, HBasisRaw, HMeterRaw >>
    /\ page.rows = << << B9, Num5dot, Num12, Stk, Num1c5, Bad125, MTR >> >>
    /\ entry = NewEntry(A1)

\* C20: when the search returned False, the extractor is not called, the
\* record appended is the identifier with both fields empty, and main goes on
\* with the next item (or, after the last, with the cleanup).
C20_NotFoundAppendsBare ==
    [][ (pcMain = "append" /\ pcMain' # "append" /\ ~ found) =>
            /\ ~ rawMetrics.called
            /\ results' = Append(results, NewEntry(to_scrape[idx]))
            /\ idx' = idx + 1
            /\ pcMain' = IF script = "H1" THEN "delay" ELSE LoopTarget(idx + 1) ]_vars

C20_Witness ==
    /\ pcMain = "search" /\ idx = 2 /\ Len(to_scrape) = 2
    /\ results = << [ Varenr |-> B9, meter_pr_rulle |-> Empty, basisenhed |-> Empty ] >>
    /\ ~ found /\ page = NoPage

\* C21: whenever main() searches an item other than the first, it has slept
\* a delay between min_delay and max_delay since the search before.
C21_DelayBetweenItems ==
    [][ (pcMain = "search" /\ pcMain' # "search" /\ idx > 1) =>
            (delay >= MinDelay /\ delay <= MaxDelay) ]_vars

\* C22: a meter_pr_rulle text that passes the numeric rule is kept as it was
\* read, and the cleanup applied to the record kept passes it again and
\* leaves it the same.
C22_NumericIdempotent ==
    (Extracted /\ NumericString(rawMetrics.meter_pr_rulle)) =>
        /\ entry.meter_pr_rulle = rawMetrics.meter_pr_rulle
        /\ IsNumeric(entry.meter_pr_rulle)
        /\ Cleanup([ meter_pr_rulle |-> entry.meter_pr_rulle,
                     basisenhed     |-> entry.basisenhed ]).meter_pr_rulle
              = entry.meter_pr_rulle

C22_Witness ==
    /\ Extracted
    /\ rawMetrics.meter_pr_rulle = Num1c5
    /\ entry.meter_pr_rulle = Num1c5
    /\ entry.basisenhed = Empty

\* the state of the run: Idle until the save thread is started, Running until
\* the first cleanup call, Draining until main() has made the last one, Done;
\* Aborted when main() ended with an exception or returned after a failed load
Phase ==
    CASE pcMain \in { "crashed", "returned" } -> "Aborted"
      [] pcMain = "done"                      -> "Done"
      [] pcSave = "unborn"                    -> "Idle"
      [] events = << >>                       -> "Running"
      [] OTHER                                -> "Draining"

PhaseAfter(p) ==
    CASE p = "Idle"     -> "Running"
      [] p = "Running"  -> "Draining"
      [] p = "Draining" -> "Done"
      [] OTHER          -> p

\* C23: the run goes Idle, Running, Draining, Done in this order, one state
\* at a time and never back (an exception or a failed load ends it where it
\* is); no item is processed before the save thread is started; at Done the
\* stop signal is set and the save thread has ended; and under fair
\* scheduling every run ends, at Done unless an exception or a failed load
\* ended it.
C23_StateMachine ==
    /\ [][ Phase' \in { Phase, PhaseAfter(Phase) }
             \/ (Phase \notin { "Done", "Aborted" } /\ Phase' = "Aborted") ]_vars
    /\ [](Phase = "Idle" =>
             /\ pcMain \notin { "search", "extract", "append", "delay" }
             /\ results = << >> /\ idx = 1)
    /\ [](Phase = "Done" => stop_event /\ SaveThreadEnded)
    /\ <>(Phase \in { "Done", "Aborted" })
    /\ <>(Phase = "Done" \/ abort # "none" \/ loadError # "none")

C23_Witness ==
    /\ Phase = "Done" /\ abort = "none" /\ failedWrites = 0
    /\ Len(results) = 2
    /\ pcSave = "done" /\ cycles >= 1
    /\ now > MaxTime

IsPrefix(a, b) == Len(a) <= Len(b) /\ SubSeq(b, 1, Len(a)) = a

\* C24: every step leaves results as a prefix of what it becomes; results
\* changes only when main() appends the one entry of the current item; and a
\* step of the save thread leaves results, the position of main() in the
\* work list, the current entry and the browser as they are.
C24_AppendOnly ==
    [][ /\ IsPrefix(results, results')
        /\ results' # results =>
              /\ pcMain = "append"
              /\ results' = Append(results, entry)
        /\ SaveStep =>
              UNCHANGED << results, to_scrape, idx, pcMain, entry, page, driver >> ]_vars

C24_Witness ==
    /\ cycles >= 1 /\ lastCycle = [ len |-> 1, wrote |-> TRUE ]
    /\ Len(results) = 2 /\ sink.kind = "new" /\ Len(sink.rows) = 1
    /\ sink.rows[1] = results[1]

\* C25: after a scrape run, a run of the merger and a second scrape run over
\* the same full list, the second work list has no identifier of the first.
C25_NoRescrape ==
    session = 3 => Range(to_scrape) \cap Range(firstWork) = {}

\* C26: on every page and identifier the two extractors return the same
\* record: the record the running script stored is the one extract_metrics
\* gives and the one extract_table_metrics gives, and the texts the two read
\* before the cleanup are the same.
C26_ExtractorsAgree ==
    Extracted =>
        LET m == extract_metrics(page, entry.Varenr)
            t == extract_table_metrics(page, entry.Varenr)
        IN  /\ m = t
            /\ LookupMetrics(page, entry.Varenr) = LookupTableMetrics(page, entry.Varenr)
            /\ entry.meter_pr_rulle = m.meter_pr_rulle /\ entry.basisenhed = m.basisenhed
            /\ entry.meter_pr_rulle = t.meter_pr_rulle /\ entry.basisenhed = t.basisenhed

C26_Witness ==
    /\ Extracted /\ script = "H1"
    /\ page.thead = << HVarenr, HBlankHeader, HMeterRaw, HMeterRaw >>
    /\ rawMetrics.row = 1 /\ Len(page.rows[1]) = 5
    /\ entry.meter_pr_rulle = Num12

\* C27: with the stop event set the save thread calls the write at most once
\* more, after the sleep it was in, and does not sleep again; the final write
\* is called, and the run is Done, only after the save thread has ended, and
\* when the final write saved a non-empty buffer
\* it was the last to open the output file, which holds the whole buffer.
C27_OneFlushAfterStop ==
    /\ flushesAfterStop <= 1
    /\ (stop_event /\ flushesAfterStop = 1) => pcSave # "sleep"
    /\ FinalFlushCalled => SaveThreadEnded
    /\ pcMain = "done" =>
          /\ SaveThreadEnded
          /\ (results # << >> /\ FinalFlushSaved) =>
                 /\ lastWriter = "main"
                 /\ sink = [ kind |-> "new", rows |-> results ]

C27_Witness ==
    /\ pcMain = "done" /\ flushesAfterStop = 1
    /\ FinalFlushSaved /\ lastWriter = "main"
    /\ cycles >= 1 /\ lastCycle = [ len |-> 2, wrote |-> TRUE ]
    /\ Len(sink.rows) = 2

\* C28: while no record has been appended no step changes the output file,
\* neither an autosave cycle nor the final write; a run that ends with an
\* empty buffer leaves the output path as it was before the run.
C28_EmptyFlushNoOp ==
    /\ [][ results' = << >> => sink' = sink ]_vars
    /\ [](results = << >> => (sink \in { SinkAbsent, SinkOld } /\ failedWrites = 0))

C28_Witness ==
    /\ pcMain = "done" /\ to_scrape = << >> /\ results = << >>
    /\ cycles >= 1 /\ lastCycle = [ len |-> 0, wrote |-> FALSE ]
    /\ events[Len(events)] = "write_skipped"
    /\ sink = SinkOld

\* the field of the record is the text of the header's cell when that passes
\* the rule, and empty otherwise
FromHeaderCellOnly(header, value, Valid) ==
    LET i == ColumnMap(header)
    IN  (i # NoIdx /\ i < Len(LocatedCells)) =>
            value = IF Valid[Strip(LocatedCells[i + 1])]
                    THEN Strip(LocatedCells[i + 1]) ELSE Empty

\* C29: when the column map gives a header an index inside the located row,
\* the field comes from that cell only: it is empty when that cell fails the
\* field's rule, whatever the cell at position 4 or 6 holds.
C29_NoSecondChance ==
    Located =>
        /\ FromHeaderCellOnly(HeaderMeter, entry.meter_pr_rulle,
                              [ t \in { Strip(LocatedCells[c]) : c \in 1..Len(LocatedCells) }
                                  |-> NumericString(t) ])
        /\ FromHeaderCellOnly(HeaderBasis, entry.basisenhed,
                              [ t \in { Strip(LocatedCells[c]) : c \in 1..Len(LocatedCells) }
                                  |-> t \in { MTR, MtrDot } ])

C29_Witness ==
    /\ Located
    /\ page.thead = << HVarenr, HMeterRaw, HBasisRaw >>
    /\ ColumnMap(HeaderMeter) = 1
    /\ Len(LocatedCells) = 7
    /\ LocatedCells[2] = Dot /\ LocatedCells[5] = Num12
    /\ entry.meter_pr_rulle = Empty
    /\ entry.basisenhed = MTR

\* rows of the page with a cell equal to the identifier / containing it
ExactRows(pg, v) ==
    { r \in 1..Len(pg.rows) :
        \E c \in 1..Len(pg.rows[r]) : NormalizeSpace(pg.rows[r][c]) = v }

ContainingRows(pg, v) ==
    { r \in 1..Len(pg.rows) :
        \E c \in 1..Len(pg.rows[r]) : Contains(NormalizeSpace(pg.rows[r][c]), v) }

\* C30: when the table has a row with a cell equal to the identifier the
\* record is extracted from the first such row, even below a row that only
\* contains the identifier; a row that only contains it is used, the first
\* one, exactly when no row has a cell equal to it.
C30_ExactMatchPreferred ==
    Extracted =>
        LET v     == entry.Varenr
            exact == ExactRows(page, v)
            sub   == ContainingRows(page, v)
        IN  /\ exact # {} =>
                  /\ rawMetrics.row \in exact
                  /\ \A q \in exact : rawMetrics.row <= q
            /\ (exact = {} /\ sub # {}) =>
                  /\ rawMetrics.row \in sub
                  /\ \A q \in sub : rawMetrics.row <= q
            /\ (rawMetrics.row # 0 /\ rawMetrics.row \notin exact) => exact = {}

C30_Witness ==
    /\ Extracted
    /\ entry.Varenr = A1
    /\ Len(page.rows) = 2
    /\ page.rows[1][1] = Longer(A1) /\ Len(page.rows[1]) = 7
    /\ page.rows[2][1] = A1 /\ Len(page.rows[2]) = 7
    /\ page.thead = << HVarenr, HMeterRaw, HBasisRaw >>
    /\ rawMetrics.row = 2
    /\ entry.meter_pr_rulle = Strip(page.rows[2][2])
    /\ entry.meter_pr_rulle # Empty
    /\ entry.meter_pr_rulle # Strip(page.rows[1][2])

\* a record stored under the identifier with the values of a row of another
\* product
C30_OtherProductRow ==
    /\ Extracted
    /\ entry.Varenr = A1
    /\ page.rows = << RowOf(Longer(A1), 5, 5) >>
    /\ rawMetrics.row = 1
    /\ entry.meter_pr_rulle = Num12

====
